---------------------------- MODULE Spec2Model ----------------------------
(***************************************************************************)
(* The car of src/src/car.py: Car.update (gravity, key input, friction,    *)
(* speed limit, position update, heading wrap) and                         *)
(* Car.handle_wall_collisions (minimum-overlap resolution against a list   *)
(* of wall rectangles).                                                    *)
(*                                                                         *)
(* Numbers.  The car's x, y, vel_x and vel_y are Python floats.  They are  *)
(* held here in fixed point, Scale units to the pixel, and every product   *)
(* or quotient that is not exact is rounded to the nearest unit, ties to   *)
(* even, the way IEEE-754 rounds to its nearest representable value.       *)
(* pygame.Rect keeps integer pixels and truncates a float argument toward  *)
(* zero; wall records hold integer pixels (random.randint).                *)
(***************************************************************************)
EXTENDS Integers, Sequences, FiniteSets, TLC

VARIABLES
    car,      \* the Car object's fields
    walls,    \* the wall list handed to Car.update (GameEngine.walls)
    keys,     \* the key state of the last Car.update
    prev,     \* the Car's fields when the last operation began
    ticks,    \* operations performed so far
    coast,    \* consecutive updates so far with neither left nor right held
    op,       \* the operation performed last
    landing_zones,  \* GameEngine.landing_zones
    pc,       \* the main loop's position in the current frame
    brain,    \* the DistributedNeuralBrain fields the sync thread writes
    seen,     \* the wall list bound to the walls parameter of Car.update
    current_story   \* the zone type of GameEngine.current_story, "" without story

\* the state of the GameEngine around the car and its wall list
engine == <<landing_zones, pc, brain, seen, current_story>>

vars == <<car, walls, keys, prev, ticks, coast, op, landing_zones, pc, brain, seen,
          current_story>>

-----------------------------------------------------------------------------
(* Bounds of the model *)

\* Spec: Car.update calls per run
MaxTicks == 5
\* SpecResolve: pixels around the block from which the car's position is drawn
GridMargin == 2
\* SpecResolve: consecutive calls of handle_wall_collisions
MaxCalls == 2
\* SpecCoast: updates with a horizontal key held, then updates with none held
MaxDrive == 12
MaxCoast == 30
\* SpecEngine: frames per run, and syncs with the parent network
MaxFrames == 3
MaxSyncs == 2
\* updates without horizontal input after which vel_x is 0
FrictionTicks == 18

-----------------------------------------------------------------------------
(* Fixed-point arithmetic *)

Scale == 100

Abs(a) == IF a < 0 THEN -a ELSE a

Sign(a) == IF a < 0 THEN -1 ELSE IF a > 0 THEN 1 ELSE 0

\* a / b for b > 0, rounded to the nearest integer, ties to even
RoundDiv(a, b) ==
    LET q == a \div b
        r == a % b
    IN  IF 2 * r < b THEN q
        ELSE IF 2 * r > b THEN q + 1
        ELSE IF q % 2 = 0 THEN q ELSE q + 1

\* the largest s in lo..hi with s * s <= n  (lo * lo <= n < (hi+1) * (hi+1))
RECURSIVE SqrtSearch(_, _, _)
SqrtSearch(n, lo, hi) ==
    IF lo >= hi THEN lo
    ELSE LET mid == (lo + hi + 1) \div 2
         IN  IF mid * mid <= n THEN SqrtSearch(n, mid, hi)
             ELSE SqrtSearch(n, lo, mid - 1)

\* math.sqrt(a**2 + b**2), rounded to the nearest integer
RoundHypot(a, b) ==
    LET n == a * a + b * b
        s == SqrtSearch(n, 0, Abs(a) + Abs(b))
    IN  IF n - s * s > s THEN s + 1 ELSE s

\* int(a) of a float a held in units: truncation toward zero, in pixels
Trunc(a) == IF a >= 0 THEN a \div Scale ELSE -((-a) \div Scale)

-----------------------------------------------------------------------------
(* Car.__init__ *)

width == 30
height == 15
max_speed == 8
jump_speed == 12
angle_step == 2
acceleration == (3 * Scale) \div 10
gravity == (5 * Scale) \div 10
wall_climbing_force == (4 * Scale) \div 10
snap_speed == (1 * Scale) \div 10

\* vel_x * self.friction, friction = 0.85
friction(v) == RoundDiv(v * 85, 100)

\* vel_x * 0.7
brake(v) == RoundDiv(v * 7, 10)

Car(x0, y0) ==
    [x |-> x0 * Scale, y |-> y0 * Scale, vel_x |-> 0, vel_y |-> 0, angle |-> 0,
     on_ground |-> FALSE, on_wall |-> FALSE, wall_normal |-> <<0, 0>>]

Keys == [left : BOOLEAN, right : BOOLEAN, up : BOOLEAN, down : BOOLEAN]

NoKeys == [left |-> FALSE, right |-> FALSE, up |-> FALSE, down |-> FALSE]

-----------------------------------------------------------------------------
(* pygame.Rect *)

\* pygame.Rect(x, y, w, h) with float x, y (in units) and integer w, h
Rect(xu, yu, w, h) ==
    LET l == Trunc(xu)
        t == Trunc(yu)
    IN  [left |-> l, top |-> t, right |-> l + w, bottom |-> t + h]

\* pygame.Rect(wall['x'], wall['y'], wall['width'], wall['height'])
WallRect(wall) == Rect(wall.x * Scale, wall.y * Scale, wall.width, wall.height)

\* the car's rectangle, as handle_wall_collisions computes it
CarRect(c) ==
    Rect(c.x - (width \div 2) * Scale, c.y - (height \div 2) * Scale, width, height)

\* Rect.colliderect: a positive-area intersection; touching edges do not collide
colliderect(a, b) ==
    /\ a.left < b.right
    /\ a.top < b.bottom
    /\ a.right > b.left
    /\ a.bottom > b.top

Min2(a, b) == IF a <= b THEN a ELSE b

-----------------------------------------------------------------------------
(* Car.handle_wall_collisions *)

\* lines 99-102: how far the car would have to move to leave the wall on each side
OverlapLeft(car_rect, wall_rect) == car_rect.right - wall_rect.left
OverlapRight(car_rect, wall_rect) == wall_rect.right - car_rect.left
OverlapTop(car_rect, wall_rect) == car_rect.bottom - wall_rect.top
OverlapBottom(car_rect, wall_rect) == wall_rect.bottom - car_rect.top

\* CollisionSide with a fault: the left and right overlaps taken for each other
CollisionSide_SwapLR(car_rect, wall_rect) ==
    LET overlap_left == OverlapRight(car_rect, wall_rect)
        overlap_right == OverlapLeft(car_rect, wall_rect)
        overlap_top == OverlapTop(car_rect, wall_rect)
        overlap_bottom == OverlapBottom(car_rect, wall_rect)
        min_overlap == Min2(Min2(overlap_left, overlap_right),
                            Min2(overlap_top, overlap_bottom))
    IN  IF min_overlap = overlap_top THEN "top"
        ELSE IF min_overlap = overlap_bottom THEN "bottom"
        ELSE IF min_overlap = overlap_left THEN "left"
        ELSE "right"

\* CollisionSide with a fault: the left and right branches come first in the
\* if/elif chain
CollisionSide_SidesFirst(car_rect, wall_rect) ==
    LET overlap_left == OverlapLeft(car_rect, wall_rect)
        overlap_right == OverlapRight(car_rect, wall_rect)
        overlap_top == OverlapTop(car_rect, wall_rect)
        overlap_bottom == OverlapBottom(car_rect, wall_rect)
        min_overlap == Min2(Min2(overlap_left, overlap_right),
                            Min2(overlap_top, overlap_bottom))
    IN  IF min_overlap = overlap_left THEN "left"
        ELSE IF min_overlap = overlap_right THEN "right"
        ELSE IF min_overlap = overlap_top THEN "top"
        ELSE "bottom"

\* the side the if/elif chain picks for one colliding wall
CollisionSide(car_rect, wall_rect) ==
    LET overlap_left == OverlapLeft(car_rect, wall_rect)
        overlap_right == OverlapRight(car_rect, wall_rect)
        overlap_top == OverlapTop(car_rect, wall_rect)
        overlap_bottom == OverlapBottom(car_rect, wall_rect)
        min_overlap == Min2(Min2(overlap_left, overlap_right),
                            Min2(overlap_top, overlap_bottom))
    IN  IF min_overlap = overlap_top THEN "top"
        ELSE IF min_overlap = overlap_bottom THEN "bottom"
        ELSE IF min_overlap = overlap_left THEN "left"
        ELSE "right"

\* LandingY with the other half of the height: the box's bottom edge is left on
\* the wall's top edge
LandingY_Flush(wall_rect) == (wall_rect.top - (height - height \div 2)) * Scale

\* self.y = wall_rect.top - self.height//2
LandingY(wall_rect) == (wall_rect.top - height \div 2) * Scale

\* the body of the for loop for one wall; car_rect is the rectangle computed
\* before the loop
ResolveWall(c, car_rect, wall) ==
    LET wall_rect == WallRect(wall)
        side == CollisionSide(car_rect, wall_rect)
    IN  IF ~colliderect(car_rect, wall_rect) THEN c
        ELSE IF side = "top" THEN
            [c EXCEPT !.y = LandingY(wall_rect),
                      !.vel_y = 0,
                      !.on_ground = TRUE]
        ELSE IF side = "bottom" THEN
            [c EXCEPT !.y = (wall_rect.bottom + height \div 2) * Scale,
                      !.vel_y = 0]
        ELSE IF side = "left" THEN
            [c EXCEPT !.x = (wall_rect.left - width \div 2) * Scale,
                      !.vel_x = 0,
                      !.on_wall = TRUE,
                      !.wall_normal = <<-1, 0>>]
        ELSE
            [c EXCEPT !.x = (wall_rect.right + width \div 2) * Scale,
                      !.vel_x = 0,
                      !.on_wall = TRUE,
                      !.wall_normal = <<1, 0>>]

\* ResolveFrom with a fault: the car's rectangle is computed anew for every
\* wall, from the position the earlier corrections left
RECURSIVE ResolveFrom_Recomputing(_, _, _, _)
ResolveFrom_Recomputing(c, car_rect, ws, i) ==
    IF i > Len(ws) THEN c
    ELSE ResolveFrom_Recomputing(ResolveWall(c, CarRect(c), ws[i]), car_rect, ws, i + 1)

RECURSIVE ResolveFrom(_, _, _, _)
ResolveFrom(c, car_rect, ws, i) ==
    IF i > Len(ws) THEN c
    ELSE ResolveFrom(ResolveWall(c, car_rect, ws[i]), car_rect, ws, i + 1)

\* handle_wall_collisions with a fault: the contact flags of the previous update
\* are not cleared
handle_wall_collisions_NoReset(c, ws) == ResolveFrom(c, CarRect(c), ws, 1)

handle_wall_collisions(c, ws) ==
    ResolveFrom([c EXCEPT !.on_ground = FALSE, !.on_wall = FALSE], CarRect(c), ws, 1)

-----------------------------------------------------------------------------
(* Car.update *)

\* ApplyGravity with a fault: gravity is added whatever the contact flags are
ApplyGravity_Always(c) == [c EXCEPT !.vel_y = @ + gravity]

ApplyGravity(c) ==
    IF ~c.on_ground /\ ~c.on_wall THEN [c EXCEPT !.vel_y = @ + gravity] ELSE c

KeyLeft(c, k) ==
    IF ~k.left THEN c
    ELSE IF c.on_wall THEN [c EXCEPT !.vel_x = @ - wall_climbing_force]
    ELSE [c EXCEPT !.vel_x = @ - acceleration, !.angle = @ - angle_step]

KeyRight(c, k) ==
    IF ~k.right THEN c
    ELSE IF c.on_wall THEN [c EXCEPT !.vel_x = @ + wall_climbing_force]
    ELSE [c EXCEPT !.vel_x = @ + acceleration, !.angle = @ + angle_step]

\* KeyUp with a fault: the jump test inverted, the impulse is given in the air only
KeyUp_InAir(c, k) ==
    IF ~k.up THEN c
    ELSE IF c.on_wall THEN [c EXCEPT !.vel_y = @ - wall_climbing_force]
    ELSE IF ~c.on_ground THEN [c EXCEPT !.vel_y = -(jump_speed * Scale)]
    ELSE c

KeyUp(c, k) ==
    IF ~k.up THEN c
    ELSE IF c.on_wall THEN [c EXCEPT !.vel_y = @ - wall_climbing_force]
    ELSE IF c.on_ground THEN [c EXCEPT !.vel_y = -(jump_speed * Scale)]
    ELSE c

\* KeyDown with a fault: the brake is applied on a wall as well
KeyDown_BrakingOnWall(c, k) ==
    IF ~k.down THEN c
    ELSE IF c.on_wall
         THEN [c EXCEPT !.vel_y = @ + wall_climbing_force, !.vel_x = brake(@)]
    ELSE [c EXCEPT !.vel_x = brake(@)]

KeyDown(c, k) ==
    IF ~k.down THEN c
    ELSE IF c.on_wall THEN [c EXCEPT !.vel_y = @ + wall_climbing_force]
    ELSE [c EXCEPT !.vel_x = brake(@)]

HandleInput(c, k) == KeyDown(KeyUp(KeyRight(KeyLeft(c, k), k), k), k)

\* ApplyFriction with a fault: no snap to zero
ApplyFriction_NoSnap(c) == [c EXCEPT !.vel_x = friction(@)]

ApplyFriction(c) ==
    LET v == friction(c.vel_x)
    IN  [c EXCEPT !.vel_x = IF Abs(v) < snap_speed THEN 0 ELSE v]

\* LimitSpeed with a fault: only vel_x is rescaled
LimitSpeed_XOnly(c) ==
    LET speed == RoundHypot(c.vel_x, c.vel_y)
    IN  IF speed > max_speed * Scale
        THEN [c EXCEPT !.vel_x = RoundDiv(c.vel_x * max_speed * Scale, speed)]
        ELSE c

LimitSpeed(c) ==
    LET speed == RoundHypot(c.vel_x, c.vel_y)
    IN  IF speed > max_speed * Scale
        THEN [c EXCEPT !.vel_x = RoundDiv(c.vel_x * max_speed * Scale, speed),
                       !.vel_y = RoundDiv(c.vel_y * max_speed * Scale, speed)]
        ELSE c

\* the car at line 71 of Car.update, where the speed is computed
BeforeLimit(c, k) == ApplyFriction(HandleInput(ApplyGravity(c), k))

\* DividesBySpeed with a fault: the division is not guarded
DividesBySpeed_Unguarded(c) == TRUE

\* line 72: whether the divisions by speed of lines 73-74 are executed
DividesBySpeed(c) == RoundHypot(c.vel_x, c.vel_y) > max_speed * Scale

\* Car.update(k) on c raises ZeroDivisionError, the one exception its
\* arithmetic can raise
Raises(c, k) ==
    /\ DividesBySpeed(BeforeLimit(c, k))
    /\ RoundHypot(BeforeLimit(c, k).vel_x, BeforeLimit(c, k).vel_y) = 0

UpdatePosition(c) == [c EXCEPT !.x = @ + c.vel_x, !.y = @ + c.vel_y]

\* WrapAngle with a fault: the remainder of a truncating division, negative for
\* a negative angle
WrapAngle_Truncating(c) ==
    [c EXCEPT !.angle = IF @ < 0 THEN -((-@) % 360) ELSE @ % 360]

WrapAngle(c) == [c EXCEPT !.angle = @ % 360]

\* lines 28-78 of Car.update: everything before the call of handle_wall_collisions
integrate(c, k) ==
    UpdatePosition(LimitSpeed(ApplyFriction(HandleInput(ApplyGravity(c), k))))

update(c, k, ws) == WrapAngle(handle_wall_collisions(integrate(c, k), ws))

-----------------------------------------------------------------------------
(* Levels: wall lists around the spawn point (100, 400), with the sizes    *)
(* LevelGenerator.generate_level draws                                     *)

Wall(x0, y0, w, h) == [x |-> x0, y |-> y0, width |-> w, height |-> h]

Platform == Wall(80, 408, 150, 30)
VerticalWall == Wall(115, 300, 40, 200)
Ramp == Wall(80, 350, 150, 40)

Levels ==
    { <<>>,
      <<Platform>>,
      <<VerticalWall>>,
      <<Platform, VerticalWall>>,
      <<Platform, Ramp>> }

-----------------------------------------------------------------------------
(* The operations of the game around Car.update: the respawn, the landing  *)
(* zone test, and the fields of the distributed brain that its background  *)
(* sync thread writes                                                      *)

\* reset_position with a fault: the velocity is kept
reset_position_KeepVelocity(c, x0, y0) ==
    [c EXCEPT !.x = x0 * Scale, !.y = y0 * Scale, !.angle = 0,
              !.on_ground = FALSE, !.on_wall = FALSE]

\* reset_position with a fault: wall_normal is cleared with the contact flags
reset_position_ClearNormal(c, x0, y0) ==
    [c EXCEPT !.x = x0 * Scale, !.y = y0 * Scale,
              !.vel_x = 0, !.vel_y = 0, !.angle = 0,
              !.on_ground = FALSE, !.on_wall = FALSE, !.wall_normal = <<0, 0>>]

\* Car.reset_position: wall_normal is not among the fields it assigns
reset_position(c, x0, y0) ==
    [c EXCEPT !.x = x0 * Scale, !.y = y0 * Scale,
              !.vel_x = 0, !.vel_y = 0, !.angle = 0,
              !.on_ground = FALSE, !.on_wall = FALSE]

\* the spawn point GameEngine passes to Car and to reset_position
spawn_x == 100
spawn_y == 400

check_collision_with_zone(c, zone) == colliderect(CarRect(c), WallRect(zone))

\* the brain's record of the parent network: len(parent_updates), the list
\* sync_with_parent_network appends to through apply_parent_updates, and
\* len(local_brain.session_data), the game data collected frame by frame
\* (the player profile and the timestamps are not part of the state)
Brain == [parent_updates |-> 0, session_data |-> 0]

\* NeuralBrain.collect_data
collect_data(b) == [b EXCEPT !.session_data = @ + 1]

\* len(session_data) from which generate_level_suggestions analyses the data
\* instead of returning the default suggestions
analysis_threshold == 10

\* NeuralBrain.generate_level_suggestions raises: from analysis_threshold
\* data points on, the dict literal assigned to suggestions reads suggestions
suggestions_raise(b) == b.session_data >= analysis_threshold

apply_parent_updates(b) == [b EXCEPT !.parent_updates = @ + 1]

sync_with_parent_network(b) == apply_parent_updates(b)

\* the engine between two frames, with the level the car is in
EngineIdle ==
    /\ landing_zones = <<>>
    /\ pc = "frame"
    /\ brain = Brain
    /\ seen = walls
    /\ current_story = ""

-----------------------------------------------------------------------------
(* The game: GameEngine creates Car(100, 400) and calls Car.update once    *)
(* per frame with the keys then held                                       *)

Init ==
    /\ car = Car(100, 400)
    /\ walls \in Levels
    /\ keys = NoKeys
    /\ prev = car
    /\ ticks = 0
    /\ coast = 0
    /\ op = "init"
    /\ EngineIdle

Update(k) ==
    /\ ticks < MaxTicks
    /\ car' = update(car, k, walls)
    /\ keys' = k
    /\ prev' = car
    /\ ticks' = ticks + 1
    /\ coast' = IF k.left \/ k.right THEN 0 ELSE coast + 1
    /\ op' = "update"
    /\ UNCHANGED <<walls, engine>>

Next == \E k \in Keys : Update(k)

Spec == Init /\ [][Next]_vars


-----------------------------------------------------------------------------
(* handle_wall_collisions as a function of the car and the wall list: the  *)
(* car is drawn at positions around a block (every side of it can be the   *)
(* side of least overlap), with the contact flags an earlier update may    *)
(* have left, and the method is called MaxCalls times in a row             *)

Block == Wall(100, 400, 50, 30)
LowCeiling == Wall(100, 362, 50, 30)
SideWall == Wall(150, 300, 40, 200)

ResolveLevels ==
    { <<Block>>,
      <<Block, SideWall>>,
      <<SideWall, Block>>,
      <<Block, LowCeiling>> }

\* car centres every pixel and a half, from GridMargin pixels outside the
\* positions where the car's box touches the block
ResolveXs ==
    { px * Scale + f :
        px \in (Block.x - width \div 2 - GridMargin)
                 .. (Block.x + Block.width + width \div 2 + GridMargin),
        f \in {0, Scale \div 2} }

ResolveYs ==
    { py * Scale + f :
        py \in (Block.y - height \div 2 - 1 - GridMargin)
                 .. (Block.y + Block.height + height \div 2 + GridMargin),
        f \in {0, Scale \div 2} }

InitResolve ==
    /\ walls \in ResolveLevels
    /\ \E cx \in ResolveXs, cy \in ResolveYs, g \in BOOLEAN, w \in BOOLEAN :
          /\ (cx \div (Scale \div 2) + cy \div (Scale \div 2)) % 3 = 0
          /\ car = [x |-> cx, y |-> cy,
                    vel_x |-> 3 * acceleration, vel_y |-> 6 * gravity,
                    angle |-> 0, on_ground |-> g, on_wall |-> w,
                    wall_normal |-> <<0, 0>>]
    /\ keys = NoKeys
    /\ prev = car
    /\ ticks = 0
    /\ coast = 0
    /\ op = "init"
    /\ EngineIdle

Resolve ==
    /\ ticks < MaxCalls
    /\ car' = handle_wall_collisions(car, walls)
    /\ prev' = car
    /\ ticks' = ticks + 1
    /\ op' = "resolve"
    /\ UNCHANGED <<walls, keys, coast, engine>>

NextResolve == Resolve

SpecResolve == InitResolve /\ [][NextResolve]_vars

-----------------------------------------------------------------------------
(* Long runs: from the spawn point over the platform of the landing        *)
(* scenario, a horizontal key combination held for up to MaxDrive updates, *)
(* then a combination without left and right held for up to MaxCoast       *)

LandingPlatform == Wall(80, 430, 150, 30)
FarWall == Wall(121, 300, 40, 130)

CoastLevels == { <<LandingPlatform>>, <<LandingPlatform, FarWall>> }

DriveKeys == { k \in Keys : k.left # k.right }
CoastKeys == { k \in Keys : ~k.left /\ ~k.right }

InitCoast ==
    /\ car = Car(100, 400)
    /\ walls \in CoastLevels
    /\ keys = NoKeys
    /\ prev = car
    /\ ticks = 0
    /\ coast = 0
    /\ op = "init"
    /\ EngineIdle

Step(k) ==
    /\ car' = update(car, k, walls)
    /\ keys' = k
    /\ prev' = car
    /\ ticks' = ticks + 1
    /\ coast' = IF k.left \/ k.right THEN 0 ELSE coast + 1
    /\ op' = "update"
    /\ UNCHANGED <<walls, engine>>

Drive(k) ==
    /\ coast = 0
    /\ ticks < MaxDrive
    /\ ticks = 0 \/ keys = k
    /\ Step(k)

Coast(k) ==
    /\ coast < MaxCoast
    /\ coast = 0 \/ keys = k
    /\ Step(k)

NextCoast ==
    \/ \E k \in DriveKeys : Drive(k)
    \/ \E k \in CoastKeys : Coast(k)

SpecCoast == InitCoast /\ [][NextCoast]_vars

-----------------------------------------------------------------------------
(* The game loop of main.py: per frame the key events R (GameEngine.reset) *)
(* and N (GameEngine.generate_new_level), then GameEngine.update, whose    *)
(* course is followed in three steps (Car.update up to the position        *)
(* update, Car.update from handle_wall_collisions on, and the rest of      *)
(* GameEngine.update); the sync thread of the distributed brain runs       *)
(* between any two of these steps                                          *)

\* a landing zone of the level generator, with its type
Zone(x0, y0, w, h, t) ==
    [x |-> x0, y |-> y0, width |-> w, height |-> h, type |-> t]

\* two landing zones under the spawn point, which a falling car enters in the
\* same frame, one out of the car's reach, and one that holds the spawn point
DropZone == Zone(100, 410, 80, 50, "forest")
WideZone == Zone(100, 410, 150, 100, "city")
FarZone == Zone(2000, 1000, 100, 80, "desert")
SpawnZone == Zone(100, 380, 80, 50, "ocean")

\* a vertical wall that the box of a car at the spawn point overlaps by one pixel
NearWall == Wall(114, 300, 40, 200)

\* outcomes of LevelGenerator.generate_level around the spawn point
EngineLevels ==
    { [walls |-> <<>>, landing_zones |-> <<WideZone, DropZone>>],
      [walls |-> <<Platform>>, landing_zones |-> <<FarZone>>],
      [walls |-> <<VerticalWall>>, landing_zones |-> <<FarZone, DropZone>>],
      [walls |-> <<Platform>>, landing_zones |-> <<SpawnZone>>],
      [walls |-> <<NearWall>>, landing_zones |-> <<FarZone>>] }

\* outcomes of LevelGenerator.generate_level_from_ai around the spawn point
\* for the default suggestions of the local brain
AIPlatform == Wall(80, 408, 100, 20)
AIVerticalWall == Wall(115, 300, 40, 180)
AIDropZone == Zone(100, 410, 120, 80, "mountain")

AILevels ==
    { [walls |-> <<AIPlatform>>, landing_zones |-> <<FarZone>>],
      [walls |-> <<AIVerticalWall>>, landing_zones |-> <<AIDropZone>>] }

InitEngine ==
    /\ car = Car(spawn_x, spawn_y)
    /\ \E level \in EngineLevels :
          /\ walls = level.walls
          /\ landing_zones = level.landing_zones
    /\ keys = NoKeys
    /\ prev = car
    /\ ticks = 0
    /\ coast = 0
    /\ op = "init"
    /\ pc = "frame"
    /\ brain = Brain
    /\ seen = walls
    /\ current_story = ""

\* GameEngine.reset
Reset ==
    /\ pc = "frame"
    /\ car' = reset_position(car, spawn_x, spawn_y)
    /\ \E level \in EngineLevels :
          /\ walls' = level.walls
          /\ landing_zones' = level.landing_zones
    /\ prev' = car
    /\ op' = "reset"
    /\ current_story' = ""
    /\ UNCHANGED <<keys, ticks, coast, pc, brain, seen>>

\* GameEngine.generate_new_level
GenerateNewLevel ==
    /\ pc = "frame"
    /\ IF suggestions_raise(brain)
       THEN \* the exception leaves generate_new_level and the game loop
            /\ pc' = "error"
            /\ op' = "error"
            /\ UNCHANGED <<car, walls, landing_zones>>
       ELSE /\ \E level \in AILevels :
                  /\ walls' = level.walls
                  /\ landing_zones' = level.landing_zones
            /\ car' = reset_position(car, spawn_x, spawn_y)
            /\ op' = "new_level"
            /\ pc' = pc
    /\ prev' = car
    /\ UNCHANGED <<keys, ticks, coast, brain, seen, current_story>>

\* GameEngine.update reads the keys and calls Car.update(keys, self.walls),
\* which runs up to the position update
Integrate(k) ==
    /\ pc = "frame"
    /\ ticks < MaxFrames
    /\ keys' = k
    /\ seen' = walls
    /\ prev' = car
    /\ car' = integrate(car, k)
    /\ coast' = IF k.left \/ k.right THEN 0 ELSE coast + 1
    /\ pc' = "resolve"
    /\ op' = "integrate"
    /\ UNCHANGED <<walls, landing_zones, ticks, brain, current_story>>

\* ResolveWalls with a fault: the walls the car collided with are removed
\* from the list
ResolveWalls_Consuming ==
    /\ pc = "resolve"
    /\ car' = WrapAngle(handle_wall_collisions(car, seen))
    /\ walls' = SelectSeq(walls, LAMBDA wall : ~colliderect(CarRect(car), WallRect(wall)))
    /\ pc' = "zones"
    /\ op' = "update"
    /\ UNCHANGED <<landing_zones, keys, prev, ticks, coast, brain, seen, current_story>>

\* Car.update goes on with handle_wall_collisions(walls) and the heading
ResolveWalls ==
    /\ pc = "resolve"
    /\ car' = WrapAngle(handle_wall_collisions(car, seen))
    /\ pc' = "zones"
    /\ op' = "update"
    /\ UNCHANGED <<walls, landing_zones, keys, prev, ticks, coast, brain, seen, current_story>>

\* collect_enhanced_data at the end of GameEngine.update collects the frame's
\* game data and syncs on the main thread when the last sync is older than
\* sync_interval
CollectData ==
    \/ brain' = collect_data(brain)
    \/ /\ brain.parent_updates < MaxSyncs
       /\ brain' = sync_with_parent_network(collect_data(brain))

\* ZoneLoop with a fault: no break, the last zone the car is in is acted on
RECURSIVE ZoneLoop_NoBreak(_, _, _)
ZoneLoop_NoBreak(c, zones, i) ==
    IF i > Len(zones) THEN 0
    ELSE IF ZoneLoop_NoBreak(c, zones, i + 1) # 0 THEN ZoneLoop_NoBreak(c, zones, i + 1)
    ELSE IF check_collision_with_zone(c, zones[i]) THEN i
    ELSE 0

\* the for loop of lines 93-107 from zone i on: the index of the zone that is
\* acted on, where the loop breaks; 0 when the car is in no zone
RECURSIVE ZoneLoop(_, _, _)
ZoneLoop(c, zones, i) ==
    IF i > Len(zones) THEN 0
    ELSE IF check_collision_with_zone(c, zones[i]) THEN i
    ELSE ZoneLoop(c, zones, i + 1)

\* GameEngine.update after Car.update: the landing zone test, and a story, a
\* new level and a respawn when the car is in a zone
EndFrame ==
    /\ pc = "zones"
    /\ IF ZoneLoop(car, landing_zones, 1) # 0
       THEN /\ current_story' = landing_zones[ZoneLoop(car, landing_zones, 1)].type
            /\ \E level \in EngineLevels :
                  /\ walls' = level.walls
                  /\ landing_zones' = level.landing_zones
            /\ car' = reset_position(car, spawn_x, spawn_y)
            /\ op' = "landing"
       ELSE /\ UNCHANGED <<car, walls, landing_zones, current_story>>
            /\ op' = "frame"
    /\ CollectData
    /\ pc' = "frame"
    /\ ticks' = ticks + 1
    /\ UNCHANGED <<keys, prev, coast, seen>>

\* Sync with a fault: the thread respawns the car
Sync_Respawning ==
    /\ brain.parent_updates < MaxSyncs
    /\ brain' = sync_with_parent_network(brain)
    /\ car' = reset_position(car, spawn_x, spawn_y)
    /\ UNCHANGED <<walls, keys, prev, ticks, coast, op, landing_zones, pc, seen,
                   current_story>>

\* sync_worker of start_background_sync, once sync_interval has passed
Sync ==
    /\ pc # "error"
    /\ brain.parent_updates < MaxSyncs
    /\ brain' = sync_with_parent_network(brain)
    /\ UNCHANGED <<car, walls, keys, prev, ticks, coast, op, landing_zones, pc, seen,
                   current_story>>

NextEngine ==
    \/ Reset
    \/ GenerateNewLevel
    \/ \E k \in Keys : Integrate(k)
    \/ ResolveWalls
    \/ EndFrame
    \/ Sync

SpecEngine == InitEngine /\ [][NextEngine]_vars

\* the game data that load_existing_data finds in the data file of earlier
\* sessions: none, fewer than analysis_threshold, that many, more
LoadedData == {0, 8, 10, 101}

\* the game started with the data of earlier sessions
InitData ==
    /\ car = Car(spawn_x, spawn_y)
    /\ \E level \in EngineLevels :
          /\ walls = level.walls
          /\ landing_zones = level.landing_zones
    /\ keys = NoKeys
    /\ prev = car
    /\ ticks = 0
    /\ coast = 0
    /\ op = "init"
    /\ pc = "frame"
    /\ \E n \in LoadedData : brain = [Brain EXCEPT !.session_data = n]
    /\ seen = walls
    /\ current_story = ""

SpecData == InitData /\ [][NextEngine]_vars

-----------------------------------------------------------------------------
(* Level generation from the suggestions of the brain.  The suggestion     *)
(* values are tenths; the level keeps the first wall of every kind the     *)
(* generator appends (all walls of a kind are drawn from the same ranges), *)
(* with sizes at either end of their range and positions at the lower end  *)

\* the world of LevelGenerator
level_width == 3000
level_height == 2000

\* tenths on which the float products below floor to the exact integer
Difficulties == {0, 5, 7, 10}
WallDensities == {0, 4, 10}
VerticalChallenges == {0, 1, 2, 3, 6}
HorizontalSpreads == {0, 5, 10}

Suggestions ==
    [difficulty : Difficulties, wall_density : WallDensities,
     vertical_challenge : VerticalChallenges,
     horizontal_spread : HorizontalSpreads]

\* random.randint(a, b): either end of the range; no value when a > b, where
\* randint raises ValueError
randint(a, b) == IF a > b THEN {} ELSE {a, b}

\* the lower end of random.randint(a, b)
randint_low(a, b) == IF a > b THEN {} ELSE {a}

num_walls(s) == (20 * s.wall_density * (10 + s.difficulty)) \div 100

num_vertical_walls(s) == (15 * s.vertical_challenge * (10 + s.difficulty)) \div 100

vertical_base_height(s) ==
    (200 * s.vertical_challenge * (10 + s.difficulty)) \div 100

ai_platforms(s) ==
    IF num_walls(s) = 0 THEN {<<>>}
    ELSE { <<Wall(x0, y0, w, h)>> :
             x0 \in randint_low(0, (level_width * s.horizontal_spread) \div 10),
             y0 \in randint_low(300, level_height - 100),
             w \in randint((IF s.difficulty < 5 THEN 150 ELSE 100) - 50,
                           (IF s.difficulty < 5 THEN 150 ELSE 100) + 50),
             h \in randint((IF s.difficulty < 5 THEN 30 ELSE 20) - 10,
                           (IF s.difficulty < 5 THEN 30 ELSE 20) + 10) }

ai_vertical_walls(s) ==
    IF num_vertical_walls(s) = 0 THEN {<<>>}
    ELSE { <<Wall(x0, y0, w, h)>> :
             x0 \in randint_low(0, (level_width * s.horizontal_spread) \div 10),
             y0 \in randint_low(200, level_height - 200),
             w \in randint(30, 80),
             h \in randint(vertical_base_height(s) - 50,
                           vertical_base_height(s) + 100) }

\* generate_complex_structures: a maze cell and the first platform of a spiral
generate_complex_structures(s) ==
    IF s.difficulty > 6
    THEN <<Wall(0, 300, 100, 30), Wall(300, 400, 80, 25)>>
    ELSE <<>>

ai_landing_zones(s) ==
    { <<Zone(x0, y0, w, h, "forest")>> :
        x0 \in randint_low(100, (level_width * s.horizontal_spread) \div 10 - 200),
        y0 \in randint_low(100, level_height - 100),
        w \in randint_low((IF s.difficulty < 7 THEN 120 ELSE 80) - 20,
                          (IF s.difficulty < 7 THEN 120 ELSE 80) + 30),
        h \in randint_low((IF s.difficulty < 7 THEN 80 ELSE 50) - 20,
                          (IF s.difficulty < 7 THEN 80 ELSE 50) + 20) }

\* the levels generate_level_from_ai can return for suggestions s; none when
\* it raises
generate_level_from_ai(s) ==
    { [walls |-> p \o v \o generate_complex_structures(s), landing_zones |-> z] :
        p \in ai_platforms(s), v \in ai_vertical_walls(s),
        z \in ai_landing_zones(s) }

\* GameEngine.generate_new_level with the suggestions s of the brain
NewLevelFromAI(s) ==
    /\ pc = "frame"
    /\ \E level \in generate_level_from_ai(s) :
          /\ walls' = level.walls
          /\ landing_zones' = level.landing_zones
    /\ car' = reset_position(car, spawn_x, spawn_y)
    /\ prev' = car
    /\ op' = "new_level"
    /\ UNCHANGED <<keys, ticks, coast, pc, brain, seen, current_story>>

NextLevel ==
    \/ Reset
    \/ \E s \in Suggestions : NewLevelFromAI(s)

SpecLevel == InitEngine /\ [][NextLevel]_vars

-----------------------------------------------------------------------------
(* The car of simple_demo.py: no walls, a floor at y = 400.  The key set is *)
(* free for the first MaxDemoDrive updates and held from then on, for up to *)
(* MaxDemoCoast more, the length of a jump                                  *)

MaxDemoDrive == 3
MaxDemoCoast == 50

\* the height of the floor
floor_y == 400

\* simple_demo.Car.__init__
DemoCar(x0, y0) ==
    [x |-> x0 * Scale, y |-> y0 * Scale, vel_x |-> 0, vel_y |-> 0, angle |-> 0,
     on_ground |-> FALSE, on_wall |-> FALSE]

\* the keys the demo car reads
DemoKeys == { k \in Keys : ~k.down }

\* lines 51-70 of simple_demo.Car.update: gravity, input, friction, position
demo_move(c, k) ==
    LET fall == IF ~c.on_ground /\ ~c.on_wall THEN c.vel_y + gravity ELSE c.vel_y
        vy == IF k.up /\ c.on_ground THEN -(jump_speed * Scale) ELSE fall
        vx == friction(c.vel_x - (IF k.left THEN acceleration ELSE 0)
                               + (IF k.right THEN acceleration ELSE 0))
    IN  [c EXCEPT !.vel_x = vx,
                  !.vel_y = vy,
                  !.angle = @ - (IF k.left THEN angle_step ELSE 0)
                              + (IF k.right THEN angle_step ELSE 0),
                  !.x = @ + vx,
                  !.y = @ + vy]

\* demo_land with a fault: a car on the floor counts as below it
demo_land_OnFloor(c) ==
    IF c.y >= floor_y * Scale
    THEN [c EXCEPT !.on_ground = TRUE, !.y = floor_y * Scale, !.vel_y = 0]
    ELSE [c EXCEPT !.on_ground = FALSE]

\* lines 72-75: on_ground = y > 400, and a car below the floor is put on it
demo_land(c) ==
    IF c.y > floor_y * Scale
    THEN [c EXCEPT !.on_ground = TRUE, !.y = floor_y * Scale, !.vel_y = 0]
    ELSE [c EXCEPT !.on_ground = FALSE]

\* simple_demo.Car.update
demo_update(c, k) == demo_land(demo_move(c, k))

InitDemo ==
    /\ car = DemoCar(spawn_x, spawn_y)
    /\ walls = <<>>
    /\ keys = NoKeys
    /\ prev = car
    /\ ticks = 0
    /\ coast = 0
    /\ op = "init"
    /\ EngineIdle

DemoUpdate(k) ==
    /\ IF ticks < MaxDemoDrive
       THEN coast' = 0
       ELSE /\ coast < MaxDemoCoast
            /\ coast = 0 \/ keys = k
            /\ coast' = coast + 1
    /\ car' = demo_update(car, k)
    /\ keys' = k
    /\ prev' = car
    /\ ticks' = ticks + 1
    /\ op' = "update"
    /\ UNCHANGED <<walls, engine>>

\* the demo game puts the car back at the spawn point, after a landing zone
\* and for a new level: the position only
DemoRespawn ==
    /\ op = "update"
    /\ car' = [car EXCEPT !.x = spawn_x * Scale, !.y = spawn_y * Scale]
    /\ op' = "respawn"
    /\ UNCHANGED <<walls, keys, prev, ticks, coast, engine>>

NextDemo ==
    \/ \E k \in DemoKeys : DemoUpdate(k)
    \/ DemoRespawn

SpecDemo == InitDemo /\ [][NextDemo]_vars

-----------------------------------------------------------------------------
(* The player profile of the distributed brain, written by two threads: the *)
(* main thread in collect_enhanced_data (update_player_profile once per     *)
(* frame, and sync_with_parent_network when the last sync is older than     *)
(* sync_interval) and the sync_worker thread (sync_with_parent_network      *)
(* after every sleep).  Nothing locks the profile, and a thread switch can  *)
(* come between the read and the write of one statement.  Here the brain    *)
(* carries the profile, each thread's position and the value it has read,   *)
(* the value update_player_profile has seen last (observed), and whether a  *)
(* write has replaced a value written after the writer's read (overwritten) *)

MaxProfileFrames == 1
MaxProfileSyncs == 6

\* profile values are held in units of 1 / ProfileScale
ProfileScale == 10000

\* the step of preferred_difficulty in update_player_profile, 0.01, and the
\* learning rate of the skill level, 0.01 = 1 / learning_rate_inverse
difficulty_step == ProfileScale \div 100
learning_rate_inverse == 100

\* performance['overall_performance'], below 0.4, between, above 0.8
Scores == { (3 * ProfileScale) \div 10, (6 * ProfileScale) \div 10, (9 * ProfileScale) \div 10 }
high_score == (8 * ProfileScale) \div 10
low_score == (4 * ProfileScale) \div 10

\* global_difficulty_adjustment, drawn by simulate_parent_network_response
\* from uniform(-0.1, 0.1)
GlobalAdjustments == { -((9 * ProfileScale) \div 100), (9 * ProfileScale) \div 100 }

Threads == {"main", "worker"}

\* max(0.0, min(1.0, v))
Clamp(v) == IF v < 0 THEN 0 ELSE IF v > ProfileScale THEN ProfileScale ELSE v

InUnit(v) == 0 <= v /\ v <= ProfileScale

\* DistributedNeuralBrain.__init__: the default profile, the main thread
\* before a frame and the sync worker asleep
ProfileBrain ==
    [parent_updates |-> 0,
     session_data |-> 0,
     skill_level |-> ProfileScale \div 2,
     preferred_difficulty |-> ProfileScale \div 2,
     at |-> [t \in Threads |-> IF t = "main" THEN "frame" ELSE "sleep"],
     read |-> [t \in Threads |-> ProfileScale \div 2],
     adjustment |-> [t \in Threads |-> 0],
     score |-> (6 * ProfileScale) \div 10,
     observed |-> ProfileScale \div 2,
     overwritten |-> FALSE]

InitProfile ==
    /\ car = Car(spawn_x, spawn_y)
    /\ walls = <<>>
    /\ keys = NoKeys
    /\ prev = car
    /\ ticks = 0
    /\ coast = 0
    /\ op = "init"
    /\ landing_zones = <<>>
    /\ pc = "frame"
    /\ brain = ProfileBrain
    /\ seen = walls
    /\ current_story = ""

\* what a step of the profile's threads leaves alone
ProfileFrame == UNCHANGED <<car, walls, keys, prev, coast, landing_zones, pc, seen, current_story>>

\* thread t writes v to preferred_difficulty, having read it before: a write
\* of another thread in between is overwritten
StoreDifficulty(b, t, v) ==
    [b EXCEPT !.preferred_difficulty = v,
              !.overwritten = @ \/ b.preferred_difficulty # b.read[t]]

\* collect_enhanced_data up to the skill level: collect_data, and lines
\* 248-257 of update_player_profile, for a frame with performance score s
UpdateSkill(s) ==
    /\ brain.at["main"] = "frame"
    /\ ticks < MaxProfileFrames
    /\ brain' = [collect_data(brain) EXCEPT
                    !.skill_level = Clamp(@ + RoundDiv(s - @, learning_rate_inverse)),
                    !.score = s,
                    !.at["main"] = "difficulty"]
    /\ op' = "skill"
    /\ UNCHANGED ticks
    /\ ProfileFrame

\* lines 260-263: the main thread reads preferred_difficulty
ReadDifficulty ==
    /\ brain.at["main"] = "difficulty"
    /\ brain' = IF brain.score > high_score \/ brain.score < low_score
                THEN [brain EXCEPT !.read["main"] = brain.preferred_difficulty,
                                   !.observed = brain.preferred_difficulty,
                                   !.at["main"] = "write"]
                ELSE [brain EXCEPT !.at["main"] = "check"]
    /\ op' = "read"
    /\ UNCHANGED ticks
    /\ ProfileFrame

\* lines 260-263: and writes it, one step up or down
WriteDifficulty ==
    /\ brain.at["main"] = "write"
    /\ brain' = [StoreDifficulty(brain, "main",
                    IF brain.score > high_score
                    THEN Clamp(brain.read["main"] + difficulty_step)
                    ELSE Clamp(brain.read["main"] - difficulty_step))
                 EXCEPT !.at["main"] = "check"]
    /\ op' = "write"
    /\ UNCHANGED ticks
    /\ ProfileFrame

\* lines 133-134, the last sync being recent: the frame ends
EndProfileFrame ==
    /\ brain.at["main"] = "check"
    /\ brain' = [brain EXCEPT !.at["main"] = "frame"]
    /\ ticks' = ticks + 1
    /\ op' = "frame"
    /\ ProfileFrame

\* sync_with_parent_network is entered, by the main thread at lines 133-134 or
\* by the worker after its sleep, and the parent's response drawn
BeginSync(t, a) ==
    /\ brain.at[t] = IF t = "main" THEN "check" ELSE "sleep"
    /\ brain.parent_updates < MaxProfileSyncs
    /\ brain' = [brain EXCEPT !.adjustment[t] = a, !.at[t] = "add"]
    /\ op' = "sync"
    /\ UNCHANGED ticks
    /\ ProfileFrame

\* line 409, preferred_difficulty += global_adjustment: the read
AddRead(t) ==
    /\ brain.at[t] = "add"
    /\ brain' = [brain EXCEPT !.read[t] = brain.preferred_difficulty,
                              !.at[t] = "added"]
    /\ op' = "add_read"
    /\ UNCHANGED ticks
    /\ ProfileFrame

\* line 409: the write
AddWrite(t) ==
    /\ brain.at[t] = "added"
    /\ brain' = [StoreDifficulty(brain, t, brain.read[t] + brain.adjustment[t])
                 EXCEPT !.at[t] = "clamp"]
    /\ op' = "add_write"
    /\ UNCHANGED ticks
    /\ ProfileFrame

\* line 410, the clamp to [0, 1]: the read
ClampRead(t) ==
    /\ brain.at[t] = "clamp"
    /\ brain' = [brain EXCEPT !.read[t] = brain.preferred_difficulty,
                              !.at[t] = "clamped"]
    /\ op' = "clamp_read"
    /\ UNCHANGED ticks
    /\ ProfileFrame

\* line 410: the write; then parent_updates.append, and the thread goes back
\* to its loop
ClampWrite(t) ==
    /\ brain.at[t] = "clamped"
    /\ brain' = [apply_parent_updates(StoreDifficulty(brain, t, Clamp(brain.read[t])))
                 EXCEPT !.at[t] = IF t = "main" THEN "frame" ELSE "sleep"]
    /\ ticks' = IF t = "main" THEN ticks + 1 ELSE ticks
    /\ op' = "clamp_write"
    /\ ProfileFrame

NextProfile ==
    \/ \E s \in Scores : UpdateSkill(s)
    \/ ReadDifficulty
    \/ WriteDifficulty
    \/ EndProfileFrame
    \/ \E t \in Threads, a \in GlobalAdjustments : BeginSync(t, a)
    \/ \E t \in Threads : AddRead(t)
    \/ \E t \in Threads : AddWrite(t)
    \/ \E t \in Threads : ClampRead(t)
    \/ \E t \in Threads : ClampWrite(t)

SpecProfile == InitProfile /\ [][NextProfile]_vars

-----------------------------------------------------------------------------
(* Properties.  In Spec and SpecCoast the last operation was                *)
(* Car.update(keys, walls) on prev; Integrated is the car as that update    *)
(* handed it to handle_wall_collisions.                                     *)

Integrated == integrate(prev, keys)

SpeedSquared == car.vel_x * car.vel_x + car.vel_y * car.vel_y

\* the walls whose rectangle collided with the car's in the last update
Colliding == { i \in 1..Len(walls) : colliderect(CarRect(Integrated), WallRect(walls[i])) }

SideOf(i) == CollisionSide(CarRect(Integrated), WallRect(walls[i]))

\* the last update was started on the ground, off the wall, with up held
JumpTick == ticks > 0 /\ prev.on_ground /\ ~prev.on_wall /\ keys.up

\* C1 as stated: at the end of every Car.update vx^2 + vy^2 <= max_speed^2.
C1_SpeedClampExact ==
    ticks > 0 => SpeedSquared <= (max_speed * Scale) * (max_speed * Scale)

\* C1, amended: at the end of every Car.update vx^2 + vy^2 <= (max_speed + e)^2,
\* e being two rounding units (the square root's and the quotients'): the
\* rescaled components are rounded, and their squares can sum to more than
\* max_speed^2.
C1_SpeedClamp ==
    ticks > 0 => SpeedSquared <= (max_speed * Scale + 2) * (max_speed * Scale + 2)

\* a jump with vel_x # 0: the limit rescaled both components
C1_Witness ==
    /\ JumpTick
    /\ car.vel_x # 0
    /\ car.vel_y < 0
    /\ SpeedSquared > (max_speed * Scale) * (max_speed * Scale)

\* C2: after Car.update (handle_wall_collisions has returned) the car's
\* rectangle, computed again from the corrected position, collides with no wall.
C2_NonPenetration ==
    ticks > 0 =>
        \A i \in 1..Len(walls) : ~colliderect(CarRect(car), WallRect(walls[i]))

\* C3 as stated (SpecResolve): a second call of handle_wall_collisions leaves
\* the car exactly as the first call left it.
C3_Idempotent == ticks >= 2 => car = prev

\* C3, amended (SpecResolve): with a single wall, a second call leaves position,
\* velocity, on_ground and wall_normal as the first call left them, and leaves
\* on_wall false: a side correction sets on_wall and leaves the car's box on
\* the wall's edge, where the second call finds no collision and clears it.
C3_IdempotentSingleWall ==
    (ticks >= 2 /\ Len(walls) = 1) =>
        /\ car.x = prev.x
        /\ car.y = prev.y
        /\ car.vel_x = prev.vel_x
        /\ car.vel_y = prev.vel_y
        /\ car.on_ground = prev.on_ground
        /\ car.wall_normal = prev.wall_normal
        /\ ~car.on_wall

\* the first call made a side correction, the second call has run
C3_Witness == ticks >= 2 /\ Len(walls) = 1 /\ prev.on_wall /\ ~car.on_wall

\* the last update took a car with vel_x = 0 and vel_y > 0, horizontally inside
\* the span of the only wall, from above the wall's top edge to below it
LandingTick ==
    /\ ticks > 0
    /\ Len(walls) = 1
    /\ Integrated.vel_x = 0
    /\ Integrated.vel_y > 0
    /\ CarRect(Integrated).left >= WallRect(walls[1]).left
    /\ CarRect(Integrated).right <= WallRect(walls[1]).right
    /\ CarRect(prev).bottom <= WallRect(walls[1]).top
    /\ CarRect(Integrated).bottom > WallRect(walls[1]).top

\* C4: after the update in which the falling car's bottom edge passes below the
\* platform's top edge, on_ground is true, vel_y is 0 and the bottom edge of
\* the car's box (its top plus height) equals the platform's top edge.
C4_GroundLanding ==
    LandingTick =>
        /\ car.on_ground
        /\ car.vel_y = 0
        /\ CarRect(car).top + height = WallRect(walls[1]).top

\* the landing scenario: spawned at (100, 400) over LandingPlatform, no key ever
\* held, and a further update without keys changes nothing
AtRestInScenario ==
    /\ walls = <<LandingPlatform>>
    /\ ticks > 0
    /\ ticks = coast
    /\ keys = NoKeys
    /\ update(car, NoKeys, walls) = car

\* C5 (SpecCoast): in the landing scenario the car comes to rest with on_ground
\* true and y = 430 - 15/2 = 422.5.
C5_RestingHeight ==
    AtRestInScenario =>
        /\ car.on_ground
        /\ 2 * car.y = (2 * LandingPlatform.y - height) * Scale

\* C6 as stated: after an update started on the ground with up held, vel_y is
\* exactly -jump_speed.
C6_JumpImpulseExact == JumpTick => car.vel_y = -(jump_speed * Scale)

\* the car handed to handle_wall_collisions when the input step leaves vel_y at
\* exactly -jump_speed, whatever it was
AfterImpulse ==
    UpdatePosition(LimitSpeed(ApplyFriction(
        [KeyDown(KeyRight(KeyLeft(prev, keys), keys), keys)
            EXCEPT !.vel_y = -(jump_speed * Scale)])))

\* C6, amended: after an update started on the ground (off the wall) with up
\* held, vel_y is -jump_speed as the speed limit of the same update rescaled
\* it, whatever vel_y was before: exactly -max_speed when vel_x is 0 and never
\* beyond -max_speed; or it is 0, when handle_wall_collisions stopped the jump
\* on a wall's top or bottom.
C6_JumpImpulse ==
    JumpTick =>
        /\ \/ car.vel_y = AfterImpulse.vel_y
           \/ /\ car.vel_y = 0
              /\ \E i \in 1..Len(walls) :
                    /\ colliderect(CarRect(AfterImpulse), WallRect(walls[i]))
                    /\ CollisionSide(CarRect(AfterImpulse), WallRect(walls[i]))
                           \in {"top", "bottom"}
        /\ car.vel_y >= -(max_speed * Scale)
        /\ (AfterImpulse.vel_x = 0 /\ Colliding = {})
               => car.vel_y = -(max_speed * Scale)

\* a jump straight up from a platform
C6_Witness ==
    /\ JumpTick
    /\ car.vel_x = 0
    /\ car.vel_y = -(max_speed * Scale)
    /\ car.y < prev.y

\* the last update drove the car, moving right, into the only wall, the left
\* overlap being smaller than the top and bottom overlaps and no larger than
\* the right one
HitFromLeft ==
    /\ ticks > 0
    /\ Len(walls) = 1
    /\ Integrated.vel_x > 0
    /\ colliderect(CarRect(Integrated), WallRect(walls[1]))
    /\ LET cr == CarRect(Integrated)
           wr == WallRect(walls[1])
       IN  /\ OverlapLeft(cr, wr) < OverlapTop(cr, wr)
           /\ OverlapLeft(cr, wr) < OverlapBottom(cr, wr)
           /\ OverlapLeft(cr, wr) <= OverlapRight(cr, wr)

\* C7: a car moving right into the left face of a single wall ends that update
\* with on_wall true, wall_normal = (-1, 0), vel_x = 0 and the right edge of its
\* box on the wall's left edge.
C7_WallAttachLeft ==
    HitFromLeft =>
        /\ car.on_wall
        /\ car.wall_normal = <<-1, 0>>
        /\ car.vel_x = 0
        /\ CarRect(car).right = WallRect(walls[1]).left

C7_Witness == HitFromLeft /\ car.on_wall /\ car.x < Integrated.x

\* C8 as stated: after collision resolution on_ground and on_wall are never
\* both true.
C8_FlagsExclusive == ~(car.on_ground /\ car.on_wall)

\* C8, amended: on_ground and on_wall are both true after an update only when
\* two different walls collided with the car in it, one corrected as a top
\* contact and another as a side contact; one colliding wall sets at most one
\* of the flags.
C8_BothFlagsNeedTwoWalls ==
    (ticks > 0 /\ car.on_ground /\ car.on_wall) =>
        \E i, j \in Colliding :
            /\ i # j
            /\ SideOf(i) = "top"
            /\ SideOf(j) \in {"left", "right"}

\* standing on the platform and against the wall
C8_Witness == ticks > 0 /\ car.on_ground /\ car.on_wall /\ Cardinality(Colliding) = 2

\* C9 (SpecCoast): in every update of a run without left and right held, vel_x
\* keeps its sign or becomes 0, stays 0 once it is 0, and is 0 from the
\* FrictionTicks-th update of the run on.
C9_FrictionConvergence ==
    [][coast' > coast =>
        /\ Sign(car'.vel_x) \in {0, Sign(car.vel_x)}
        /\ car.vel_x = 0 => car'.vel_x = 0
        /\ coast' >= FrictionTicks => car'.vel_x = 0]_vars

\* the update of a run without horizontal input that snaps a moving car's vel_x to 0
C9_Witness ==
    /\ coast > 1
    /\ ticks > coast
    /\ prev.vel_x # 0
    /\ car.vel_x = 0
    /\ Colliding = {}

\* C10: at the end of every update the angle is in [0, 360); a left turn from 0
\* gives 358, and a right turn from 359 gives 1.
C10_HeadingWrap ==
    /\ car.angle \in 0..359
    /\ (ticks > 0 /\ ~prev.on_wall /\ keys.left /\ ~keys.right /\ prev.angle = 0)
           => car.angle = 358
    /\ WrapAngle(KeyRight([Car(100, 400) EXCEPT !.angle = 359],
                          [NoKeys EXCEPT !.right = TRUE])).angle = 1

\* a left turn from heading 0
C10_Witness ==
    ticks > 0 /\ keys.left /\ ~keys.right /\ prev.angle = 0 /\ car.angle = 358

\* the last update began with the car landed (on_ground, vel_y = 0) and had
\* no key held
NoInputOnGround == ticks > 0 /\ prev.on_ground /\ prev.vel_y = 0 /\ keys = NoKeys

C14_Total == ticks > 0 => ~Raises(prev, keys)

\* an update of a car whose speed at line 71 is 0, and which completed
C14_Witness ==
    /\ ticks > 0
    /\ RoundHypot(BeforeLimit(prev, keys).vel_x, BeforeLimit(prev, keys).vel_y) = 0
    /\ car = update(prev, keys, walls)

\* the car of the last update after its input step (lines 28-63)
AfterInput == HandleInput(ApplyGravity(prev), keys)

\* the sum of the steps the held keys of a pair give: minus for the first key,
\* plus for the second
KeyPair(first, second, step) ==
    (IF second THEN step ELSE 0) - (IF first THEN step ELSE 0)

\* C21: in an update that starts with on_wall true (on_ground true or not),
\* left and right change vel_x by -/+ wall_climbing_force and leave the
\* heading, up and down change vel_y by -/+ wall_climbing_force, and neither
\* the jump impulse nor the brake is applied
C21_WallMode ==
    (ticks > 0 /\ prev.on_wall) =>
        /\ AfterInput.vel_x = prev.vel_x + KeyPair(keys.left, keys.right, wall_climbing_force)
        /\ AfterInput.vel_y = prev.vel_y + KeyPair(keys.up, keys.down, wall_climbing_force)
        /\ AfterInput.angle = prev.angle
        /\ car.angle = prev.angle

\* an update with up, down and left held of a car that is on a wall and on
\* the ground
C21_Witness ==
    /\ ticks > 0
    /\ prev.on_wall /\ prev.on_ground
    /\ keys.up /\ keys.down /\ keys.left /\ ~keys.right
    /\ car = update(prev, keys, walls)

\* C22: with up held in an update that starts with both flags false, the
\* input step leaves vel_y as gravity made it; an update in which up set
\* vel_y to the jump impulse started with on_ground true; and, with a single
\* wall, an update that gave the impulse ends with on_ground false, so that
\* the next update gives none
C22_NoMidAirJump ==
    ticks > 0 =>
        /\ (keys.up /\ ~prev.on_ground /\ ~prev.on_wall) =>
               AfterInput.vel_y = prev.vel_y + gravity
        /\ (keys.up /\ ~prev.on_wall /\ AfterInput.vel_y # ApplyGravity(prev).vel_y) =>
               prev.on_ground /\ AfterInput.vel_y = -(jump_speed * Scale)
        /\ (JumpTick /\ Len(walls) = 1) => ~car.on_ground

\* up held in the update after a jump: the car is rising in the air and only
\* gravity changed vel_y
C22_Witness ==
    /\ ticks > 0 /\ keys.up
    /\ ~prev.on_ground /\ ~prev.on_wall
    /\ prev.vel_y < -(7 * Scale)
    /\ car.vel_y = prev.vel_y + gravity

\* C25: with a single obstacle, a car that a left or right correction attached
\* to the wall in the previous tick and that gets neither LEFT nor RIGHT in
\* this tick is not attached at the end of this tick: the correction left its
\* box edge to edge with the obstacle and vel_x = 0 keeps it there
C25_AttachmentLost ==
    (ticks > 1 /\ Len(walls) = 1 /\ prev.on_wall /\ ~keys.left /\ ~keys.right) =>
        /\ prev.vel_x = 0
        /\ ~colliderect(CarRect(prev), WallRect(walls[1]))
        /\ Integrated.x = prev.x
        /\ ~car.on_wall

\* a car attached to a wall is released by a tick with the UP key only
C25_Witness ==
    /\ ticks > 1 /\ Len(walls) = 1 /\ prev.on_wall
    /\ keys.up /\ ~keys.left /\ ~keys.right
    /\ ~car.on_wall
    /\ car = update(prev, keys, walls)

\* the speed GameEngine.update computes from the car's velocity after
\* Car.update, for the performance feedback and for the visual effects
speed_seen == RoundHypot(car.vel_x, car.vel_y)

\* len(get_nearby_walls()): the walls colliding with the 200 x 200 box around
\* the car
walls_nearby ==
    Cardinality({ i \in 1..Len(walls) :
        colliderect(Rect(car.x - 100 * Scale, car.y - 100 * Scale, 200, 200),
                    WallRect(walls[i])) })

\* the speeds above which the feedback and the speed trail are produced
feedback_speed == 10
trail_speed == 8
slow_speed == 2

\* the text generate_performance_feedback leaves in performance_feedback
performance_feedback ==
    IF speed_seen > feedback_speed * Scale /\ walls_nearby > 0
    THEN "Excellent speed control near obstacles!"
    ELSE IF speed_seen > trail_speed * Scale THEN "Great speed!"
    ELSE IF walls_nearby > 3 THEN "Nice wall climbing!"
    ELSE IF speed_seen < slow_speed * Scale THEN "Try accelerating more"
    ELSE ""

\* update_visual_effects appends a speed_trail effect
speed_trail == speed_seen > trail_speed * Scale

\* C27 as stated: no sequence of inputs makes update_visual_effects append a
\* speed_trail effect or generate_performance_feedback produce "Great speed!"
\* or "Excellent speed control near obstacles!".
C27_EffectsUnreachable ==
    ticks > 0 =>
        /\ ~speed_trail
        /\ performance_feedback
             \notin {"Great speed!", "Excellent speed control near obstacles!"}

\* C27, amended: the speed the engine sees exceeds max_speed by at most one
\* rounding unit, and only after an update whose speed limit rescaled the
\* velocity; so "Excellent speed control near obstacles!" (speed > 10) is
\* never produced, and the speed trail and "Great speed!" (speed > 8) are
\* produced together, in just the updates whose rounded rescaling left the
\* speed above max_speed.
C27_SpeedEffects ==
    ticks > 0 =>
        /\ speed_seen <= max_speed * Scale + 1
        /\ performance_feedback # "Excellent speed control near obstacles!"
        /\ speed_trail <=> performance_feedback = "Great speed!"
        /\ speed_trail <=> speed_seen = max_speed * Scale + 1
        /\ speed_trail => DividesBySpeed(BeforeLimit(prev, keys))

\* a jump with RIGHT held: the rescaled velocity has a speed that rounds to
\* more than max_speed, the trail is appended and the feedback is "Great speed!"
C27_Witness ==
    /\ JumpTick
    /\ keys.right
    /\ speed_trail
    /\ performance_feedback = "Great speed!"
    /\ SpeedSquared > (max_speed * Scale) * (max_speed * Scale)

-----------------------------------------------------------------------------
(* Properties of handle_wall_collisions (SpecResolve): the last operation  *)
(* was handle_wall_collisions(walls) on prev                               *)

\* the walls that the box of the car, as the call found it, collides with
Hits == { i \in 1..Len(walls) : colliderect(CarRect(prev), WallRect(walls[i])) }

\* the side of wall i with the least overlap, the first in the order top,
\* bottom, left, right among equals
LeastSide(i) ==
    LET car_rect == CarRect(prev)
        wall_rect == WallRect(walls[i])
        least == Min2(Min2(OverlapLeft(car_rect, wall_rect), OverlapRight(car_rect, wall_rect)),
                      Min2(OverlapTop(car_rect, wall_rect), OverlapBottom(car_rect, wall_rect)))
    IN  IF OverlapTop(car_rect, wall_rect) = least THEN "top"
        ELSE IF OverlapBottom(car_rect, wall_rect) = least THEN "bottom"
        ELSE IF OverlapLeft(car_rect, wall_rect) = least THEN "left"
        ELSE "right"

\* C17: if the car's box overlaps no wall, both flags are false after the call
\* whatever they were before; on_ground is true after the call only if some
\* overlapping wall was a top contact, on_wall only if some was a left or
\* right contact
C17_FreshFlags ==
    ticks > 0 =>
        /\ Hits = {} => ~car.on_ground /\ ~car.on_wall
        /\ car.on_ground => \E i \in Hits : LeastSide(i) = "top"
        /\ car.on_wall => \E i \in Hits : LeastSide(i) \in {"left", "right"}

\* a call on a car with both flags set and no wall under its box
C17_Witness ==
    /\ ticks > 0 /\ Hits = {}
    /\ prev.on_ground /\ prev.on_wall
    /\ ~car.on_ground /\ ~car.on_wall

\* C18: for one overlapping wall the call applies the one correction of the
\* side of least overlap (top, bottom, left, right among equals): top and
\* bottom write y and vel_y and leave x and vel_x, left and right write x and
\* vel_x and leave y and vel_y; bottom sets neither flag
C18_SingleCorrection ==
    (ticks > 0 /\ Len(walls) = 1 /\ Hits = {1}) =>
        LET wall_rect == WallRect(walls[1])
            cleared == [prev EXCEPT !.on_ground = FALSE, !.on_wall = FALSE]
        IN  CASE LeastSide(1) = "top" ->
                   car = [cleared EXCEPT !.y = (wall_rect.top - height \div 2) * Scale,
                                         !.vel_y = 0, !.on_ground = TRUE]
              [] LeastSide(1) = "bottom" ->
                   car = [cleared EXCEPT !.y = (wall_rect.bottom + height \div 2) * Scale,
                                         !.vel_y = 0]
              [] LeastSide(1) = "left" ->
                   car = [cleared EXCEPT !.x = (wall_rect.left - width \div 2) * Scale,
                                         !.vel_x = 0, !.on_wall = TRUE,
                                         !.wall_normal = <<-1, 0>>]
              [] LeastSide(1) = "right" ->
                   car = [cleared EXCEPT !.x = (wall_rect.right + width \div 2) * Scale,
                                         !.vel_x = 0, !.on_wall = TRUE,
                                         !.wall_normal = <<1, 0>>]

\* a ceiling contact where the bottom overlap equals the left overlap, on a
\* car that had both flags set
C18_Witness ==
    /\ ticks > 0 /\ Len(walls) = 1 /\ Hits = {1}
    /\ LeastSide(1) = "bottom"
    /\ OverlapBottom(CarRect(prev), WallRect(walls[1]))
         = OverlapLeft(CarRect(prev), WallRect(walls[1]))
    /\ prev.on_ground /\ prev.on_wall
    /\ ~car.on_ground /\ ~car.on_wall /\ car.x = prev.x /\ car.vel_x = prev.vel_x

\* the overlapping walls whose correction writes y, and those whose
\* correction writes x
YWriters == { i \in Hits : LeastSide(i) \in {"top", "bottom"} }
XWriters == { i \in Hits : LeastSide(i) \in {"left", "right"} }

Last(S) == CHOOSE i \in S : \A j \in S : j <= i

\* the coordinate the correction for wall i writes
Corrected(i) ==
    LET wall_rect == WallRect(walls[i])
    IN  CASE LeastSide(i) = "top" -> (wall_rect.top - height \div 2) * Scale
          [] LeastSide(i) = "bottom" -> (wall_rect.bottom + height \div 2) * Scale
          [] LeastSide(i) = "left" -> (wall_rect.left - width \div 2) * Scale
          [] LeastSide(i) = "right" -> (wall_rect.right + width \div 2) * Scale

\* C19: the walls corrected for are those overlapping the box the car had
\* when the call began, whatever earlier corrections did; each coordinate is
\* the one written for the last wall in list order that corrects its axis,
\* and is untouched when no wall corrects that axis
C19_ListOrder ==
    ticks > 0 =>
        /\ car.y = IF YWriters = {} THEN prev.y ELSE Corrected(Last(YWriters))
        /\ car.x = IF XWriters = {} THEN prev.x ELSE Corrected(Last(XWriters))

\* two overlapping walls corrected the same axis with different values
C19_Witness ==
    /\ ticks > 0
    /\ YWriters = {1, 2}
    /\ Corrected(1) # Corrected(2)
    /\ car.y = Corrected(2)

-----------------------------------------------------------------------------
(* Properties of the game loop (SpecEngine)                                *)

\* the last step of the main loop ended with Car.reset_position(100, 400)
AfterReset == op \in {"reset", "new_level", "landing"}

\* C11: whatever the car's fields were, after Car.reset_position(x, y) the
\* position is (x, y), the velocity (0, 0), the heading 0, and on_ground and
\* on_wall are both false
C11_Reset ==
    AfterReset =>
        /\ car.x = spawn_x * Scale /\ car.y = spawn_y * Scale
        /\ car.vel_x = 0 /\ car.vel_y = 0
        /\ car.angle = 0
        /\ ~car.on_ground /\ ~car.on_wall

\* a reset of a grounded, moving, turned car away from the spawn point
C11_Witness ==
    /\ op = "reset"
    /\ prev.on_ground /\ prev.vel_x # 0 /\ prev.angle # 0
    /\ prev.x # car.x /\ prev.y # car.y

\* the wall lists the level generator hands to GameEngine
CompleteLevels == { level.walls : level \in EngineLevels \cup AILevels }

\* C15: no step inside Car.update changes the wall list; the wall list changes
\* only between frames or after Car.update, and then to a complete level; and
\* the list handle_wall_collisions reads is the engine's current list
C15_Atomicity ==
    [][ /\ (pc = "resolve" \/ pc' = "resolve") => walls' = walls
        /\ walls' # walls =>
               pc \in {"frame", "zones"} /\ pc' = "frame" /\ walls' \in CompleteLevels
        /\ pc' = "resolve" => seen' = walls' ]_vars

\* the car landed in a level that generate_new_level installed, with a sync
\* of the brain before the end of the frame
C15_Witness ==
    /\ pc = "zones" /\ seen = walls
    /\ walls = <<AIPlatform>>
    /\ car.on_ground
    /\ brain.parent_updates > 0

\* C16: a step of the sync thread (the brain changes while the main loop
\* stays where it is) writes neither the car nor the wall list nor the
\* landing zones; they change only in steps of the main loop
C16_SingleWriter ==
    [][ (brain' # brain /\ pc' = pc) =>
            car' = car /\ walls' = walls /\ landing_zones' = landing_zones ]_vars

\* the thread synced inside the first frame, between the steps of
\* GameEngine.update, and the car has moved in that frame
C16_Witness ==
    /\ ticks = 0 /\ pc = "zones"
    /\ brain.parent_updates = MaxSyncs
    /\ car.x # prev.x /\ car.y # prev.y

\* the car as Car.update takes it, with gravity added when neither contact
\* flag is set
Gated(c) ==
    IF ~c.on_ground /\ ~c.on_wall THEN [c EXCEPT !.vel_y = @ + gravity] ELSE c

\* C20: the integration of a tick adds gravity to vel_y exactly when on_ground
\* and on_wall were both false as the previous resolution or reset left
\* them, and leaves both flags as they were; the flags change only in
\* handle_wall_collisions and in reset_position
C20_GravityGate ==
    [][ /\ (pc = "frame" /\ pc' = "resolve") =>
              /\ car'.on_ground = car.on_ground
              /\ car'.on_wall = car.on_wall
              /\ car'.vel_y = LimitSpeed(ApplyFriction(HandleInput(Gated(car), keys'))).vel_y
        /\ (car'.on_ground # car.on_ground \/ car'.on_wall # car.on_wall) =>
              \/ pc = "resolve" /\ pc' = "zones"
              \/ op' \in {"reset", "new_level", "landing"} ]_vars

\* the integration of a tick that began with the car on the ground and no
\* key held: no gravity was added and the flag is still set
C20_Witness ==
    /\ pc = "resolve"
    /\ prev.on_ground /\ ~prev.on_wall /\ keys = NoKeys
    /\ car.on_ground /\ car.vel_y = prev.vel_y

\* the landing zones the car's box overlaps
ZonesEntered ==
    { i \in 1..Len(landing_zones) :
        colliderect(CarRect(car), WallRect(landing_zones[i])) }

\* C23: when the car's box after Car.update overlaps a landing zone, the
\* frame ends with the car at the spawn point with zero velocity, heading 0
\* and both flags false, with the walls and landing zones of a generated
\* level, and with the story of the first overlapping zone in list order
C23_TriggerZone ==
    [][ (pc = "zones" /\ pc' = "frame" /\ ZonesEntered # {}) =>
            /\ car'.x = spawn_x * Scale /\ car'.y = spawn_y * Scale
            /\ car'.vel_x = 0 /\ car'.vel_y = 0 /\ car'.angle = 0
            /\ ~car'.on_ground /\ ~car'.on_wall
            /\ [walls |-> walls', landing_zones |-> landing_zones'] \in EngineLevels
            /\ current_story' =
                  landing_zones[CHOOSE i \in ZonesEntered :
                                  \A j \in ZonesEntered : i <= j].type ]_vars

\* a frame that ended with the story of WideZone, which is listed before
\* DropZone in the one level that holds it
C23_Witness ==
    /\ op = "landing" /\ pc = "frame"
    /\ current_story = WideZone.type
    /\ car.x = spawn_x * Scale /\ car.y = spawn_y * Scale

\* the walls whose side correction handle_wall_collisions is about to apply
\* to the car: those colliding on their left or right side
SideContacts ==
    { i \in 1..Len(seen) :
        /\ colliderect(CarRect(car), WallRect(seen[i]))
        /\ CollisionSide(CarRect(car), WallRect(seen[i])) \in {"left", "right"} }

\* the normal the side correction for wall i writes
NormalWritten(i) ==
    IF OverlapLeft(CarRect(car), WallRect(seen[i]))
         <= OverlapRight(CarRect(car), WallRect(seen[i]))
    THEN <<-1, 0>> ELSE <<1, 0>>

\* C26: wall_normal is always (0,0), (-1,0) or (1,0); with on_wall true it is
\* (-1,0) or (1,0), the normal written by the last side correction of the most
\* recent resolution; a resolution without a side contact, reset_position and
\* every other step leave wall_normal as it was, so it can be non-zero while
\* on_wall is false
C26_WallNormal ==
    /\ car.wall_normal = <<0, 0>> /\ ~car.on_wall
    /\ [][ /\ car'.wall_normal \in {<<0, 0>>, <<-1, 0>>, <<1, 0>>}
           /\ car'.on_wall => car'.wall_normal \in {<<-1, 0>>, <<1, 0>>}
           /\ IF pc = "resolve" /\ pc' = "zones"
              THEN IF SideContacts # {}
                   THEN /\ car'.on_wall
                        /\ car'.wall_normal
                             = NormalWritten(CHOOSE i \in SideContacts :
                                                \A j \in SideContacts : j <= i)
                   ELSE /\ ~car'.on_wall
                        /\ car'.wall_normal = car.wall_normal
              ELSE /\ car'.wall_normal = car.wall_normal
                   /\ car'.on_wall => car.on_wall ]_vars

\* after a reset the car is off the wall and still carries the normal of the
\* wall it was attached to
C26_Witness ==
    /\ op = "reset"
    /\ ~car.on_wall
    /\ car.wall_normal = <<-1, 0>>
    /\ prev.on_wall

\* C30: right after a regeneration triggered by a landing zone, or after
\* GameEngine.reset, the car at the spawn point overlaps no landing zone of the
\* new level
C30_NoRetrigger ==
    op \in {"reset", "landing"} => ZonesEntered = {}

\* C24: GameEngine.generate_new_level returns normally, whatever the number
\* of game data points collected before
C24_RegenerationCompletes == op # "error"

-----------------------------------------------------------------------------
(* Properties of the generated levels (SpecLevel)                          *)

\* C13: every wall installed in GameEngine.walls has positive width and
\* positive height
C13_PositiveSize ==
    \A i \in 1..Len(walls) : walls[i].width > 0 /\ walls[i].height > 0

-----------------------------------------------------------------------------
(* Properties of the demo car (SpecDemo): the last update was               *)
(* demo_update(prev, keys)                                                  *)

\* C28: after every update of the demo car y <= 400, and on_ground is not
\* true at the end of two updates in a row: a car resting on the floor is
\* grounded after every other update, and a jump needs on_ground
C28_DemoCar ==
    ticks > 0 =>
        /\ car.y <= floor_y * Scale
        /\ ~(prev.on_ground /\ car.on_ground)
        /\ (prev.y = floor_y * Scale /\ ~prev.on_ground /\ prev.vel_y = 0)
              => car.on_ground
        /\ (op = "update" /\ car.vel_y = -(jump_speed * Scale))
              => (prev.on_ground /\ keys.up)

\* a car that had jumped and come down to the floor, grounded by one update with
\* UP held, is not grounded after the next: the jump is accepted
C28_Witness ==
    /\ ticks > MaxDemoDrive + 40
    /\ op = "update"
    /\ prev.on_ground
    /\ keys.up
    /\ ~car.on_ground
    /\ car.vel_y = -(jump_speed * Scale)
    /\ car = demo_update(prev, keys)

-----------------------------------------------------------------------------
(* Properties of the player profile (SpecProfile)                           *)

\* C29: whatever the main thread reads of preferred_difficulty and
\* skill_level is within [0, 1], under any interleaving with the sync worker,
\* and no thread's write of the profile is overwritten by the other's
C29_ProfileBounds ==
    /\ InUnit(brain.skill_level)
    /\ InUnit(brain.observed)
    /\ ~brain.overwritten

=============================================================================
